---- MODULE Spec2Model ----
(***************************************************************************)
(* Labor-hour report of backend-control-operarios (src/index.js):          *)
(* GET /api/reporte-horas pairs the clock events of one worker into        *)
(* intervals, splits every interval by calendar day and classifies the     *)
(* day segments under the PTAP (daily blocks) or the PTAR (weekly 45 h     *)
(* limit, night hours) policy.                                             *)
(*                                                                         *)
(* Time.  A Date is its number of milliseconds since 00:00:00.000 server   *)
(* local time of Monday 2025-11-24 (day 0); the server zone has no         *)
(* daylight saving.  Hour amounts are kept exact, in milliseconds:         *)
(* h hours is the integer h * MsPorHora.  toFixed(2) yields hundredths of  *)
(* an hour.                                                                *)
(***************************************************************************)
EXTENDS Integers, Sequences, FiniteSets, TLC

\* ------------------------------------------------------------------ bounds
MaxRegistros == 3      \* longest event sequence of the free-form inputs
MaxDia == 7            \* last day (0 = Monday) of the single-shift inputs
MaxDiaPlan == 6        \* last day of the shift-plan inputs
MaxPermisos == 2       \* most absence records the Permiso collection holds
MaxPeticiones == 2     \* most POST /api/registro requests of a behaviour

\* ------------------------------------------------------- program constants
MsPorHora == 1000 * 60 * 60
MsPorDia == 24 * MsPorHora
LimiteSemanal == 45 * MsPorHora
Nulo == -1             \* null (a Date is never negative here)

MathMax(a, b) == IF a >= b THEN a ELSE b
MathMin(a, b) == IF a <= b THEN a ELSE b

\* ------------------------------------------------------------ Date model
\* new Date(y, m, d, h, mi, s) for the calendar day with index dia
FechaHora(dia, h, mi, s) == dia * MsPorDia + ((h * 60 + mi) * 60 + s) * 1000

\* the calendar day (getFullYear/getMonth/getDate) a Date falls in
DiaDe(t) == t \div MsPorDia

\* Date.prototype.getDay: 0 = Sunday, 1 = Monday, ..., 6 = Saturday
getDay(t) == (DiaDe(t) + 1) % 7

\* the calendar (year, month, day of month) of a day index; day 0 is
\* 2025-11-24, November has 30 days and December 31
Calendario(dia) ==
  IF dia < -23 THEN [anio |-> 2025, mes |-> 10, dia |-> dia + 54]
  ELSE IF dia < 7 THEN [anio |-> 2025, mes |-> 11, dia |-> dia + 24]
  ELSE IF dia < 38 THEN [anio |-> 2025, mes |-> 12, dia |-> dia - 6]
  ELSE [anio |-> 2026, mes |-> 1, dia |-> dia - 37]

\* obtenerFechaDia: the "YYYY-MM-DD" text of a Date, as its three numbers
obtenerFechaDia(t) == Calendario(DiaDe(t))

\* obtenerSemana with the Sunday adjustment diffDomingo (-6 in the source)
obtenerSemanaCon(t, diffDomingo) ==
  LET diaSemana == getDay(t)
      diff == IF diaSemana = 0 THEN diffDomingo ELSE 1 - diaSemana
      inicioSemana == FechaHora(DiaDe(t) + diff, 0, 0, 0)
      finSemana == FechaHora(DiaDe(inicioSemana) + 6, 23, 59, 59) + 999
  IN [inicio |-> inicioSemana, fin |-> finSemana]

obtenerSemanaSinAjuste(t) == obtenerSemanaCon(t, 1)

obtenerSemana(t) == obtenerSemanaCon(t, -6)

\* ------------------------------------------------------ interval builder
\* one iteration of `for (const reg of registros)`; est = [ultimoIngreso,
\* intervalos]; limpiar tells whether the pending check-in is cleared
PasoParCon(est, reg, limpiar) ==
  IF reg.tipo = "ingreso"
  THEN [est EXCEPT !.ultimoIngreso = reg.creadoEn]
  ELSE IF reg.tipo = "salida" /\ est.ultimoIngreso # Nulo
  THEN [ultimoIngreso |-> IF limpiar THEN Nulo ELSE est.ultimoIngreso,
        intervalos |-> Append(est.intervalos,
                              [inicio |-> est.ultimoIngreso,
                               fin |-> reg.creadoEn])]
  ELSE est

PasoParSinLimpiar(est, reg) == PasoParCon(est, reg, FALSE)

\* a second check-in closes the interval of the pending one
PasoParIngresoCierra(est, reg) ==
  IF reg.tipo = "ingreso" /\ est.ultimoIngreso # Nulo
  THEN [ultimoIngreso |-> reg.creadoEn,
        intervalos |-> Append(est.intervalos,
                              [inicio |-> est.ultimoIngreso,
                               fin |-> reg.creadoEn])]
  ELSE PasoParCon(est, reg, TRUE)

PasoPar(est, reg) == PasoParCon(est, reg, TRUE)

\* ----------------------------------------------------------- day splitting
\* the locals of one iteration of `while (actual < intervalo.fin)`
SegmentoDia(actual, fin) ==
  LET inicioDia == FechaHora(DiaDe(actual), 0, 0, 0)
      finDia == FechaHora(DiaDe(actual), 23, 59, 59)
      inicioSegmento == MathMax(actual, inicioDia)
      finSegmento == MathMin(fin, finDia)
  IN [actual |-> actual, fin |-> fin, inicioDia |-> inicioDia,
      finDia |-> finDia, inicioSegmento |-> inicioSegmento,
      finSegmento |-> finSegmento]

\* getDate() without the + 1: 00:00:00 of the day of inicioSegmento
SiguienteDiaSinAvance(inicioSegmento) ==
  FechaHora(DiaDe(inicioSegmento), 0, 0, 0)

\* the cursor after the iteration: 00:00:00 of the day after inicioSegmento
SiguienteDia(inicioSegmento) == FechaHora(DiaDe(inicioSegmento) + 1, 0, 0, 0)

\* ------------------------------------------------------- PTAP daily blocks
horasEntre(fechaInicio, fechaFin) ==
  LET ms == fechaFin - fechaInicio IN IF ms > 0 THEN ms ELSE 0

esDomingo(d) == getDay(d) = 0

bloqueManianaInicio(d) == FechaHora(DiaDe(d), 7, 0, 0)
bloqueManianaFin(d) == FechaHora(DiaDe(d), 12, 0, 0)
bloqueTardeInicio(d) == FechaHora(DiaDe(d), 14, 0, 0)
bloqueTardeFin(d) == FechaHora(DiaDe(d), 17, 0, 0)
bloqueExtraTarde(d) == FechaHora(DiaDe(d), 18, 0, 0)
bloqueExtraInicio(d) == FechaHora(DiaDe(d), 17, 0, 0)

\* interseccion(inicioBloque, finBloque) of the segment the closure captures
interseccion(inicioSegmento, finSegmento, inicioBloque, finBloque) ==
  LET ini == MathMax(inicioSegmento, inicioBloque)
      fin == MathMin(finSegmento, finBloque)
  IN IF fin <= ini THEN 0 ELSE horasEntre(ini, fin)

\* the block hours of one day segment
BloquesPTAP(seg) ==
  LET s == seg.inicioSegmento
      f == seg.finSegmento
      horasManiana ==
        interseccion(s, f, bloqueManianaInicio(s), bloqueManianaFin(s))
      horasTarde ==
        interseccion(s, f, bloqueTardeInicio(s), bloqueTardeFin(s))
      horasExtraDia == interseccion(s, f, bloqueExtraInicio(s), seg.finDia)
  IN [fecha |-> obtenerFechaDia(s), domingo |-> esDomingo(s),
      horasManiana |-> horasManiana, horasTarde |-> horasTarde,
      horasExtraDia |-> horasExtraDia,
      horasNormalesDia |-> horasManiana + horasTarde]

\* `if (domingo) {...} else {...}`: tot = [horasNormales, horasExtra,
\* horasDominicales, detalle]; conExtra tells whether the Sunday total takes
\* the evening block too
AcumularPTAPCon(tot, b, conExtra) ==
  IF b.domingo
  THEN [tot EXCEPT
          !.horasDominicales = @ + b.horasNormalesDia
                                 + (IF conExtra THEN b.horasExtraDia ELSE 0),
          !.detalle = Append(@, [fecha |-> b.fecha, domingo |-> TRUE,
             horasNormalesDia |-> b.horasNormalesDia,
             horasExtraDia |-> b.horasExtraDia,
             horasDominicalesDia |-> b.horasNormalesDia + b.horasExtraDia,
             horasNocturnas |-> 0])]
  ELSE [tot EXCEPT
          !.horasNormales = @ + b.horasNormalesDia,
          !.horasExtra = @ + b.horasExtraDia,
          !.detalle = Append(@, [fecha |-> b.fecha, domingo |-> FALSE,
             horasNormalesDia |-> b.horasNormalesDia,
             horasExtraDia |-> b.horasExtraDia,
             horasDominicalesDia |-> 0,
             horasNocturnas |-> 0])]

AcumularPTAPSoloNormales(tot, b) == AcumularPTAPCon(tot, b, FALSE)

AcumularPTAP(tot, b) == AcumularPTAPCon(tot, b, TRUE)

\* Number(x.toFixed(2)) of an hour amount, in hundredths of an hour
toFixed2(ms) ==
  IF ms >= 0 THEN (ms + 18000) \div 36000
  ELSE 0 - ((0 - ms + 18000) \div 36000)

\* ------------------------------------------------------ PTAR weekly limit
\* aFechaColombia: the Date shifted by the fixed offset of 5 hours
aFechaSinDesfase(date) == date

aFechaColombia(date) ==
  LET offsetMs == 5 * 60 * 60 * 1000 IN date - offsetMs

\* horasNocturnas of one day segment (lines 433-463)
NocturnasSegmento(inicioSegmento, finSegmento) ==
  LET inicioLocal == aFechaColombia(inicioSegmento)
      finLocal == aFechaColombia(finSegmento)
      inicio19hLocal == FechaHora(DiaDe(inicioLocal), 19, 0, 0)
      fin6hSiguienteLocal == FechaHora(DiaDe(inicioLocal) + 1, 6, 0, 0)
  IN IF finLocal > inicio19hLocal /\ inicioLocal < fin6hSiguienteLocal
     THEN MathMax(0, MathMin(finLocal, fin6hSiguienteLocal)
                       - MathMax(inicioLocal, inicio19hLocal))
     ELSE 0

\* `${obtenerFechaDia(semana.inicio)}_${obtenerFechaDia(semana.fin)}`
ClaveSemana(semana) ==
  <<obtenerFechaDia(semana.inicio), obtenerFechaDia(semana.fin)>>

\* the position of the bucket with the key in semanas (an object, kept as the
\* sequence of its values in insertion order), 0 when the key is absent
PosSemana(semanas, clave) ==
  IF \E j \in 1..Len(semanas) : semanas[j].clave = clave
  THEN CHOOSE j \in 1..Len(semanas) : semanas[j].clave = clave
  ELSE 0

\* lines 477-489: create the bucket if absent, then add (suma) or, in the
\* faulty variant, overwrite the day's hours
AcumularSemanaCon(semanas, semana, horasDelDia, horasNocturnas, suma) ==
  LET clave == ClaveSemana(semana)
      conClave ==
        IF PosSemana(semanas, clave) = 0
        THEN Append(semanas,
                    [clave |-> clave,
                     inicio |-> obtenerFechaDia(semana.inicio),
                     fin |-> obtenerFechaDia(semana.fin),
                     horasTotales |-> 0, horasNormales |-> 0,
                     horasExtra |-> 0, horasNocturnas |-> 0])
        ELSE semanas
      j == PosSemana(conClave, clave)
  IN [conClave EXCEPT
        ![j].horasTotales = (IF suma THEN @ ELSE 0) + horasDelDia,
        ![j].horasNocturnas = @ + horasNocturnas]

AcumularSemanaSinSuma(semanas, semana, horasDelDia, horasNocturnas) ==
  AcumularSemanaCon(semanas, semana, horasDelDia, horasNocturnas, FALSE)

AcumularSemana(semanas, semana, horasDelDia, horasNocturnas) ==
  AcumularSemanaCon(semanas, semana, horasDelDia, horasNocturnas, TRUE)

\* lines 505-511: the 45 h limit of one week
LimiteSemanaSinTope(semana) ==
  [semana EXCEPT !.horasNormales = semana.horasTotales, !.horasExtra = 0]

LimiteSemana(semana) ==
  IF semana.horasTotales <= LimiteSemanal
  THEN [semana EXCEPT !.horasNormales = semana.horasTotales,
                      !.horasExtra = 0]
  ELSE [semana EXCEPT !.horasNormales = LimiteSemanal,
                      !.horasExtra = semana.horasTotales - LimiteSemanal]

\* Object.values(semanas).reduce((sum, s) => sum + s[campo], 0)
RECURSIVE SumaCampo(_, _)
SumaCampo(sems, campo) ==
  IF sems = <<>> THEN 0
  ELSE SumaCampo(SubSeq(sems, 1, Len(sems) - 1), campo)
         + sems[Len(sems)][campo]

\* ------------------------------------------------------------------ inputs
\* the time of day h:mi:s.ms in milliseconds
Reloj(h, mi, s, ms) == ((h * 60 + mi) * 60 + s) * 1000 + ms

Evento(tipo, t) == [tipo |-> tipo, creadoEn |-> t]

Ordenados(regs) ==
  \A j \in 1..(Len(regs) - 1) : regs[j].creadoEn <= regs[j + 1].creadoEn

\* (a) free-form sequences: any kinds, few instants around the Sunday/Monday
\*     change of week, equal timestamps included
InstantesLibres ==
  {d * MsPorDia + r : d \in {6, 7},
                      r \in {Reloj(8, 0, 0, 0), Reloj(17, 0, 0, 0),
                             Reloj(23, 59, 59, 500)}}

EventosLibres ==
  {Evento(tp, t) : tp \in {"ingreso", "salida"}, t \in InstantesLibres}

RegistrosLibres ==
  UNION {{regs \in [1..n -> EventosLibres] : Ordenados(regs)} :
         n \in 0..MaxRegistros}

\* (b) one check-in and one check-out at any two instants of days 0..MaxDia
RelojesPar ==
  {Reloj(0, 0, 0, 0), Reloj(4, 0, 0, 0), Reloj(6, 0, 0, 0),
   Reloj(6, 55, 0, 0), Reloj(10, 0, 0, 0), Reloj(13, 0, 0, 0),
   Reloj(18, 0, 0, 0), Reloj(18, 30, 0, 0), Reloj(23, 0, 0, 0),
   Reloj(23, 59, 59, 0), Reloj(23, 59, 59, 500)}

InstantesPar == {d * MsPorDia + r : d \in 0..MaxDia, r \in RelojesPar}

RegistrosPar ==
  {<<Evento("ingreso", t1), Evento("salida", t2)>> :
     <<t1, t2>> \in {p \in InstantesPar \X InstantesPar : p[1] <= p[2]}}

\* (c) shift plans: every day 0..MaxDiaPlan is free, a 9 h shift (08:00-17:00)
\*     or a 4 h shift (08:00-12:00)
Turnos == {"libre", "nueve", "cuatro"}

RegistrosTurno(d, turno) ==
  IF turno = "libre" THEN <<>>
  ELSE <<Evento("ingreso", d * MsPorDia + Reloj(8, 0, 0, 0)),
         Evento("salida",
                d * MsPorDia + (IF turno = "nueve" THEN Reloj(17, 0, 0, 0)
                                ELSE Reloj(12, 0, 0, 0)))>>

RECURSIVE RegistrosPlan(_, _)
RegistrosPlan(plan, d) ==
  IF d < 0 THEN <<>>
  ELSE RegistrosPlan(plan, d - 1) \o RegistrosTurno(d, plan[d])

RegistrosPlanes ==
  {RegistrosPlan(plan, MaxDiaPlan) : plan \in [0..MaxDiaPlan -> Turnos]}

\* ------------------------------------------------- GET /api/reporte-horas
\* a text value of a request body: absent (undefined) or a string, kept as
\* its sequence of characters
Indefinido == [definido |-> FALSE, texto |-> <<>>]
Texto(caracteres) == [definido |-> TRUE, texto |-> caracteres]

\* a Registro document; distancia is distancia.toFixed(0); peticion and
\* ahora tell which request built the document and the `ahora` it read
Documento(i, op, pl, tipo, ahora, creadoEn, dentroZona, distancia, j, turno) ==
  [nombreOperario |-> op, planta |-> pl, tipo |-> tipo,
   dentroZona |-> dentroZona, creadoEn |-> creadoEn,
   fechaDia |-> obtenerFechaDia(ahora), distancia |-> distancia,
   justificacionExtra |-> j, turno |-> turno, peticion |-> i, ahora |-> ahora]

\* the collection that holds the events regs of one worker at one site
Almacenar(regs, op, pl) ==
  [j \in 1..Len(regs) |->
     Documento(0, op, pl, regs[j].tipo, regs[j].creadoEn, regs[j].creadoEn,
               TRUE, 0, Indefinido, "null")]

\* `$gte` / `$lte` between "YYYY-MM-DD" texts: the order of strings
TextoMenorIgual(a, b) ==
  \/ a.anio < b.anio
  \/ a.anio = b.anio /\ a.mes < b.mes
  \/ a.anio = b.anio /\ a.mes = b.mes /\ a.dia <= b.dia

\* the day index that new Date(`${texto}T...`) falls in
DiasCalendario == (0 - 30)..(MaxDia + 30)

DiaDeTexto(texto) == CHOOSE d \in DiasCalendario : Calendario(d) = texto

\* .sort({creadoEn: -1}): the latest event first
InsertarDescendente(ordenados, doc) ==
  LET k == Cardinality({j \in 1..Len(ordenados) :
                          ordenados[j].creadoEn >= doc.creadoEn})
  IN SubSeq(ordenados, 1, k) \o <<doc>>
       \o SubSeq(ordenados, k + 1, Len(ordenados))

\* .sort({creadoEn: 1}): equal instants keep the order of insertion
Insertar(ordenados, doc) ==
  LET k == Cardinality({j \in 1..Len(ordenados) :
                          ordenados[j].creadoEn <= doc.creadoEn})
  IN SubSeq(ordenados, 1, k) \o <<doc>>
       \o SubSeq(ordenados, k + 1, Len(ordenados))

RECURSIVE OrdenarPorCreadoEn(_)
OrdenarPorCreadoEn(docs) ==
  IF docs = <<>> THEN <<>>
  ELSE Insertar(OrdenarPorCreadoEn(SubSeq(docs, 1, Len(docs) - 1)),
                docs[Len(docs)])

\* Registro.find({nombreOperario, planta, creadoEn: {$gte, $lte}}).sort(...)
\* (lines 262-269), as the two fields the computation reads
BuscarRegistros(docs, q, pl) ==
  LET inicio == FechaHora(DiaDeTexto(q.desde), 0, 0, 0)
      fin == FechaHora(DiaDeTexto(q.hasta), 23, 59, 59)
      hallados ==
        OrdenarPorCreadoEn(
          SelectSeq(docs, LAMBDA doc : /\ doc.nombreOperario = q.operario
                                       /\ doc.planta = pl
                                       /\ doc.creadoEn >= inicio
                                       /\ doc.creadoEn <= fin))
  IN [j \in 1..Len(hallados) |->
        Evento(hallados[j].tipo, hallados[j].creadoEn)]

\* Permiso.find({nombreOperario, planta, fechaPermiso: {$gte, $lte}})
BuscarPermisos(perms, q, pl) ==
  {p \in perms : /\ p.nombreOperario = q.operario
                 /\ p.planta = pl
                 /\ TextoMenorIgual(q.desde, p.fechaPermiso)
                 /\ TextoMenorIgual(p.fechaPermiso, q.hasta)}

RECURSIVE SumaPermisos(_)
SumaPermisos(perms) ==
  IF perms = {} THEN 0
  ELSE LET p == CHOOSE x \in perms : TRUE
       IN p.horasPermiso + SumaPermisos(perms \ {p})

\* permisos.reduce((sum, p) => sum + p.horasPermiso, 0)  (line 277)
totalHorasPermiso(perms, q, pl) == SumaPermisos(BuscarPermisos(perms, q, pl))

\* the totals of res.json of calcularHorasPTAP (lines 380-394); neto tells
\* whether the hours of absence are taken off the total
InformePTAPCon(hn, he, hd, thp, neto) ==
  LET totalHoras == hn + he + hd - (IF neto THEN thp ELSE 0)
  IN [totalHoras |-> toFixed2(totalHoras),
      horasNormales |-> toFixed2(hn),
      horasExtra |-> toFixed2(he),
      horasDominicales |-> toFixed2(hd),
      horasNocturnas |-> 0,
      horasPermiso |-> toFixed2(thp)]

InformePTAPNeto(hn, he, hd, thp) == InformePTAPCon(hn, he, hd, thp, TRUE)

InformePTAP(hn, he, hd, thp) == InformePTAPCon(hn, he, hd, thp, FALSE)

\* the totals of res.json of calcularHorasPTAR (lines 514-532)
InformePTAR(sems, thp) ==
  [totalHoras |-> toFixed2(SumaCampo(sems, "horasTotales")),
   horasNormales |-> toFixed2(SumaCampo(sems, "horasNormales")),
   horasExtra |-> toFixed2(SumaCampo(sems, "horasExtra")),
   horasDominicales |-> 0,
   horasNocturnas |-> toFixed2(SumaCampo(sems, "horasNocturnas")),
   horasPermiso |-> toFixed2(thp)]

\* the query of the report of worker "ana" over every day of the inputs
ConsultaCompleta ==
  [operario |-> "ana", desde |-> Calendario(0),
   hasta |-> Calendario(MaxDia + 1)]

\* ------------------------------------------------------------------- state
VARIABLES
  planta,            \* req.query.planta
  registros,         \* the result of Registro.find(...).sort({creadoEn: 1})
  pc,                \* "calculo", "limite" (PTAR, before line 503), "fin"
  idx,               \* position of the next reg of the pairing loop
  ultimoIngreso,     \* pending check-in or Nulo
  intervalos,
  nInt,              \* position of the current intervalo
  actual,            \* the cursor of the while loop, Nulo outside it
  segmentos,         \* the locals of every iteration of the while loop
  horasNormales, horasExtra, horasDominicales, detalle,      \* PTAP
  semanas, detalleDias,                                      \* PTAR
  respuesta,         \* the totals of res.json, hundredths of an hour
  consulta,          \* req.query: operario, desde, hasta
  permisos,          \* the Permiso collection
  previa,            \* the inputs and the report of the first request, and
                     \* whether a report of another worker came after it
  almacen,           \* the Registro collection, in order of insertion
  peticiones,        \* the POST /api/registro requests and their position
  reloj              \* the server clock

\* what no step of the report computation assigns
entradas == <<planta, registros, consulta, permisos, almacen, peticiones,
              reloj>>

\* ... and what no step before res.json assigns
fijas == <<entradas, previa>>

vars == <<planta, registros, pc, idx, ultimoIngreso, intervalos, nInt, actual,
          segmentos, horasNormales, horasExtra, horasDominicales, detalle,
          semanas, detalleDias, respuesta, consulta, permisos, previa,
          almacen, peticiones, reloj>>

SinRespuesta ==
  [totalHoras |-> 0, horasNormales |-> 0, horasExtra |-> 0,
   horasDominicales |-> 0, horasNocturnas |-> 0, horasPermiso |-> 0]

Init ==
  /\ planta \in {"PTAP", "PTAR"}
  /\ consulta = ConsultaCompleta
  /\ permisos = {}
  /\ \E regs \in RegistrosLibres \cup RegistrosPar \cup RegistrosPlanes :
       /\ almacen = Almacenar(regs, consulta.operario, planta)
       /\ registros = BuscarRegistros(almacen, consulta, planta)
  /\ previa = <<>>
  /\ peticiones = <<>>
  /\ reloj = 0
  /\ pc = "calculo"
  /\ idx = 1
  /\ ultimoIngreso = Nulo
  /\ intervalos = <<>>
  /\ nInt = 1
  /\ actual = Nulo
  /\ segmentos = <<>>
  /\ horasNormales = 0 /\ horasExtra = 0 /\ horasDominicales = 0
  /\ detalle = <<>>
  /\ semanas = <<>> /\ detalleDias = <<>>
  /\ respuesta = SinRespuesta

\* ----------------------------------------------------------------- actions
\* the body of res.json
Cuerpo ==
  [respuesta |-> respuesta, detalle |-> detalle, detalleSemanas |-> semanas,
   detalleDias |-> detalleDias]

\* the record of the reports sent: the first one with its inputs, and
\* whether a report of another worker was sent after it
Anotada(cuerpo) ==
  IF previa = <<>>
  THEN <<[consulta |-> consulta, planta |-> planta, permisos |-> permisos,
          cuerpo |-> cuerpo, otros |-> FALSE]>>
  ELSE IF consulta.operario # previa[1].consulta.operario
  THEN <<[previa[1] EXCEPT !.otros = TRUE]>>
  ELSE previa

\* one iteration of the pairing loop (lines 295-305, 402-412)
ArmarPar ==
  /\ pc = "calculo" /\ idx <= Len(registros)
  /\ LET est == PasoPar([ultimoIngreso |-> ultimoIngreso,
                         intervalos |-> intervalos], registros[idx])
     IN /\ ultimoIngreso' = est.ultimoIngreso
        /\ intervalos' = est.intervalos
  /\ idx' = idx + 1
  /\ UNCHANGED <<fijas, pc, nInt, actual, segmentos,
                 horasNormales, horasExtra, horasDominicales, detalle,
                 semanas, detalleDias, respuesta>>

EnIntervalos == pc = "calculo" /\ idx > Len(registros)

\* `let actual = new Date(intervalo.inicio)` (lines 322, 419)
EntrarIntervalo ==
  /\ EnIntervalos /\ actual = Nulo /\ nInt <= Len(intervalos)
  /\ actual' = intervalos[nInt].inicio
  /\ UNCHANGED <<fijas, pc, idx, ultimoIngreso, intervalos, nInt,
                 segmentos, horasNormales, horasExtra, horasDominicales,
                 detalle, semanas, detalleDias, respuesta>>

\* the while condition fails: on to the next intervalo
SalirIntervalo ==
  /\ EnIntervalos /\ actual # Nulo /\ ~(actual < intervalos[nInt].fin)
  /\ actual' = Nulo
  /\ nInt' = nInt + 1
  /\ UNCHANGED <<fijas, pc, idx, ultimoIngreso, intervalos,
                 segmentos, horasNormales, horasExtra, horasDominicales,
                 detalle, semanas, detalleDias, respuesta>>

Anotar(seg) == Append(segmentos, [intervalo |-> nInt,
                                  actual |-> seg.actual,
                                  finDia |-> seg.finDia,
                                  inicioSegmento |-> seg.inicioSegmento,
                                  finSegmento |-> seg.finSegmento])

\* one iteration of the while loop of calcularHorasPTAP (lines 324-377)
PartirDiaPTAP ==
  /\ EnIntervalos /\ planta = "PTAP"
  /\ actual # Nulo /\ actual < intervalos[nInt].fin
  /\ LET seg == SegmentoDia(actual, intervalos[nInt].fin)
         tot == AcumularPTAP([horasNormales |-> horasNormales,
                              horasExtra |-> horasExtra,
                              horasDominicales |-> horasDominicales,
                              detalle |-> detalle], BloquesPTAP(seg))
     IN /\ horasNormales' = tot.horasNormales
        /\ horasExtra' = tot.horasExtra
        /\ horasDominicales' = tot.horasDominicales
        /\ detalle' = tot.detalle
        /\ segmentos' = Anotar(seg)
        /\ actual' = SiguienteDia(seg.inicioSegmento)
  /\ UNCHANGED <<fijas, pc, idx, ultimoIngreso, intervalos, nInt,
                 semanas, detalleDias, respuesta>>

\* one iteration of the while loop of calcularHorasPTAR (lines 421-499)
PartirDiaPTAR ==
  /\ EnIntervalos /\ planta = "PTAR"
  /\ actual # Nulo /\ actual < intervalos[nInt].fin
  /\ LET seg == SegmentoDia(actual, intervalos[nInt].fin)
         horasDelDia == seg.finSegmento - seg.inicioSegmento
         horasNocturnas ==
           NocturnasSegmento(seg.inicioSegmento, seg.finSegmento)
         semana == obtenerSemana(seg.inicioSegmento)
     IN /\ semanas' = AcumularSemana(semanas, semana, horasDelDia,
                                     horasNocturnas)
        /\ detalleDias' = Append(detalleDias,
              [fecha |-> obtenerFechaDia(seg.inicioSegmento),
               horas |-> horasDelDia,
               horasNocturnas |-> horasNocturnas,
               semana |-> ClaveSemana(semana)])
        /\ segmentos' = Anotar(seg)
        /\ actual' = SiguienteDia(seg.inicioSegmento)
  /\ UNCHANGED <<fijas, pc, idx, ultimoIngreso, intervalos, nInt,
                 horasNormales, horasExtra, horasDominicales, detalle,
                 respuesta>>

Terminados == EnIntervalos /\ actual = Nulo /\ nInt > Len(intervalos)

\* lines 380-394
ResponderPTAP ==
  /\ Terminados /\ planta = "PTAP"
  /\ respuesta' = InformePTAP(horasNormales, horasExtra, horasDominicales,
                              totalHorasPermiso(permisos, consulta, planta))
  /\ previa' = Anotada([Cuerpo EXCEPT !.respuesta = respuesta'])
  /\ pc' = "fin"
  /\ UNCHANGED <<entradas, idx, ultimoIngreso, intervalos, nInt,
                 actual, segmentos, horasNormales, horasExtra,
                 horasDominicales, detalle, semanas, detalleDias>>

\* lines 503-512: the limit of every week
AplicarLimite ==
  /\ Terminados /\ planta = "PTAR"
  /\ semanas' = [j \in 1..Len(semanas) |-> LimiteSemana(semanas[j])]
  /\ pc' = "limite"
  /\ UNCHANGED <<fijas, idx, ultimoIngreso, intervalos, nInt,
                 actual, segmentos, horasNormales, horasExtra,
                 horasDominicales, detalle, detalleDias, respuesta>>

\* lines 514-532
ResponderPTAR ==
  /\ pc = "limite"
  /\ respuesta' =
       InformePTAR(semanas, totalHorasPermiso(permisos, consulta, planta))
  /\ previa' = Anotada([Cuerpo EXCEPT !.respuesta = respuesta'])
  /\ pc' = "fin"
  /\ UNCHANGED <<entradas, idx, ultimoIngreso, intervalos, nInt,
                 actual, segmentos, horasNormales, horasExtra,
                 horasDominicales, detalle, semanas, detalleDias>>

Next ==
  \/ ArmarPar
  \/ EntrarIntervalo
  \/ PartirDiaPTAP
  \/ PartirDiaPTAR
  \/ SalirIntervalo
  \/ ResponderPTAP
  \/ AplicarLimite
  \/ ResponderPTAR

Spec == Init /\ [][Next]_vars

\* the single shifts of the last days that start or end next to midnight
RegistrosLargos ==
  {regs \in RegistrosPar :
     \A j \in 1..2 :
       /\ DiaDe(regs[j].creadoEn) >= MaxDia - 3
       /\ regs[j].creadoEn % MsPorDia \in
            {Reloj(0, 0, 0, 0), Reloj(6, 55, 0, 0), Reloj(23, 59, 59, 500)}}

InitJusta ==
  /\ planta \in {"PTAP", "PTAR"}
  /\ consulta = ConsultaCompleta
  /\ permisos = {}
  /\ \E regs \in RegistrosLibres \cup RegistrosLargos :
       /\ almacen = Almacenar(regs, consulta.operario, planta)
       /\ registros = BuscarRegistros(almacen, consulta, planta)
  /\ previa = <<>>
  /\ peticiones = <<>>
  /\ reloj = 0
  /\ pc = "calculo"
  /\ idx = 1
  /\ ultimoIngreso = Nulo
  /\ intervalos = <<>>
  /\ nInt = 1
  /\ actual = Nulo
  /\ segmentos = <<>>
  /\ horasNormales = 0 /\ horasExtra = 0 /\ horasDominicales = 0
  /\ detalle = <<>>
  /\ semanas = <<>> /\ detalleDias = <<>>
  /\ respuesta = SinRespuesta

\* the handler runs to its end: a step that can be taken is taken
SpecJusta == InitJusta /\ [][Next]_vars /\ WF_vars(Next)

\* ------------------------------------------------------- the report service
\* GET /api/reporte-horas served request after request over one Registro
\* collection, POST /api/permisos between the requests.  The computation of
\* a report is synchronous (no await inside calcularHorasPTAP / PTAR), so
\* the reports of concurrent requests are computed one after the other.
Operarios == {"ana", "luis"}
Plantas == {"PTAP", "PTAR"}

TurnosAna ==
  {<<>>,
   <<Evento("ingreso", FechaHora(6, 8, 0, 0)),
     Evento("salida", FechaHora(6, 18, 30, 0))>>,
   <<Evento("ingreso", FechaHora(5, 22, 0, 0)),
     Evento("salida", FechaHora(7, 6, 55, 0))>>}

TurnosLuis ==
  {<<Evento("salida", FechaHora(6, 8, 0, 0)),
     Evento("ingreso", FechaHora(6, 14, 0, 0)),
     Evento("salida", FechaHora(7, 2, 0, 0))>>}

\* every worker has the same events at both sites
AlmacenesServicio ==
  {Almacenar(ra, "ana", "PTAP") \o Almacenar(rl, "luis", "PTAR")
     \o Almacenar(rl, "luis", "PTAP") \o Almacenar(ra, "ana", "PTAR") :
   ra \in TurnosAna, rl \in TurnosLuis}

\* req.query of the reports: Sunday 2025-11-30 alone, or up to Monday
ConsultasServicio ==
  {[operario |-> op, desde |-> Calendario(6), hasta |-> Calendario(h)] :
     op \in Operarios, h \in {6, 7}}

\* a decimal text "e.mmm" of a request body
Decimal(e, m) == [definido |-> TRUE, entero |-> e, milesimas |-> m]

\* parseFloat of a decimal text, in milliseconds of an hour
parseFloat(texto) == (texto.entero * 1000 + texto.milesimas) * (MsPorHora \div 1000)

\* !valor for a text of a request body: undefined and "" are falsy
Falsy(valor) == ~valor.definido \/ (valor.definido /\ valor.texto = <<>>)

CuerposPermiso ==
  {[nombreOperario |-> "ana", planta |-> "PTAP", fechaPermiso |-> Calendario(6),
    horasPermiso |-> Decimal(2, 0), motivo |-> Texto(<<"c">>)],
   [nombreOperario |-> "ana", planta |-> "PTAP", fechaPermiso |-> Calendario(7),
    horasPermiso |-> Decimal(1, 500), motivo |-> Texto(<<"c">>)],
   [nombreOperario |-> "ana", planta |-> "PTAR", fechaPermiso |-> Calendario(6),
    horasPermiso |-> Decimal(0, 333), motivo |-> Texto(<<"c">>)],
   [nombreOperario |-> "luis", planta |-> "PTAP", fechaPermiso |-> Calendario(5),
    horasPermiso |-> Decimal(3, 0), motivo |-> Texto(<<"c">>)],
   [nombreOperario |-> "luis", planta |-> "PTAR", fechaPermiso |-> Calendario(7),
    horasPermiso |-> Decimal(4, 0), motivo |-> Indefinido]}

\* `const semanas = {}` (line 415): the weeks at the entry of
\* calcularHorasPTAR, given the weeks of the report before
semanasCompartidas(anteriores) == anteriores

semanasAlEntrar(anteriores) == <<>>

\* lines 254-283: a request with complete query is accepted, the events are
\* read and the computation starts with fresh locals
Solicitar(q, pl) ==
  /\ pc \in {"espera", "fin"}
  /\ consulta' = q
  /\ planta' = pl
  /\ registros' = BuscarRegistros(almacen, q, pl)
  /\ pc' = "calculo"
  /\ idx' = 1
  /\ ultimoIngreso' = Nulo
  /\ intervalos' = <<>>
  /\ nInt' = 1
  /\ actual' = Nulo
  /\ segmentos' = <<>>
  /\ horasNormales' = 0 /\ horasExtra' = 0 /\ horasDominicales' = 0
  /\ detalle' = <<>>
  /\ semanas' = semanasAlEntrar(semanas)
  /\ detalleDias' = <<>>
  /\ respuesta' = SinRespuesta
  /\ UNCHANGED <<permisos, previa, almacen, peticiones, reloj>>

\* POST /api/permisos (lines 537-563)
RegistrarPermiso(body) ==
  /\ pc \in {"espera", "fin"}
  /\ Cardinality(permisos) < MaxPermisos
  /\ IF ~body.horasPermiso.definido \/ Falsy(body.motivo)
     THEN permisos' = permisos
     ELSE permisos' = permisos \cup
            {[id |-> Cardinality(permisos) + 1,
              nombreOperario |-> body.nombreOperario,
              planta |-> body.planta,
              fechaPermiso |-> body.fechaPermiso,
              horasPermiso |-> parseFloat(body.horasPermiso),
              motivo |-> body.motivo]}
  /\ UNCHANGED <<planta, registros, pc, idx, ultimoIngreso, intervalos, nInt,
                 actual, segmentos, horasNormales, horasExtra,
                 horasDominicales, detalle, semanas, detalleDias, respuesta,
                 consulta, previa, almacen, peticiones, reloj>>

InitServicio ==
  /\ planta = "PTAP"
  /\ consulta = ConsultaCompleta
  /\ permisos = {}
  /\ almacen \in AlmacenesServicio
  /\ registros = <<>>
  /\ previa = <<>>
  /\ peticiones = <<>>
  /\ reloj = 0
  /\ pc = "espera"
  /\ idx = 1
  /\ ultimoIngreso = Nulo
  /\ intervalos = <<>>
  /\ nInt = 1
  /\ actual = Nulo
  /\ segmentos = <<>>
  /\ horasNormales = 0 /\ horasExtra = 0 /\ horasDominicales = 0
  /\ detalle = <<>>
  /\ semanas = <<>> /\ detalleDias = <<>>
  /\ respuesta = SinRespuesta

NextServicio ==
  \/ \E q \in ConsultasServicio, pl \in Plantas : Solicitar(q, pl)
  \/ \E body \in CuerposPermiso : RegistrarPermiso(body)
  \/ ArmarPar
  \/ EntrarIntervalo
  \/ PartirDiaPTAP
  \/ PartirDiaPTAR
  \/ SalirIntervalo
  \/ ResponderPTAP
  \/ AplicarLimite
  \/ ResponderPTAR

SpecServicio == InitServicio /\ [][NextServicio]_vars

\* ------------------------------------------------------ POST /api/registro
\* The handler awaits twice (findOne, save); each request therefore runs in
\* four steps, and the steps of different requests interleave freely.  The
\* server clock runs in UTC.
\* the instants the server clock takes: Wednesday 2025-11-26 at 21:59:59
\* and 22:00:00 (17:00 in Colombia), and Thursday at 03:00
InstantesReloj ==
  {FechaHora(2, 21, 59, 59), FechaHora(2, 22, 0, 0), FechaHora(3, 3, 0, 0)}

getHours(t) == (t % MsPorDia) \div MsPorHora

\* the server zone is UTC
getUTCHours(t) == getHours(t)

\* line 143
horaLocalColombia(ahora) == (getUTCHours(ahora) + 24 - 5) % 24

determinarTurno(hora) ==
  IF hora >= 6 /\ hora < 14 THEN "manana"
  ELSE IF hora >= 14 /\ hora < 22 THEN "tarde"
  ELSE "noche"

\* PLANTAS_CONFIG[planta].radio, in millimetres
radio(pl) == IF pl = "PTAP" THEN 35 * 1000 ELSE 50 * 1000

\* the places a request is sent from ("ninguna": lat or lng is null) and
\* distanciaMetros from each to the two sites, in millimetres
Lugares == {"ninguna", "patio", "cerca", "calle", "tanque"}

distanciaMetros(lugar, pl) ==
  IF pl = "PTAP"
  THEN CASE lugar = "patio" -> 12300
         [] lugar = "cerca" -> 35000
         [] lugar = "calle" -> 35400
         [] OTHER -> 143000
  ELSE CASE lugar = "tanque" -> 50000
         [] lugar = "calle" -> 50001
         [] OTHER -> 143000

\* Number.prototype.toFixed(0) of a distance, in metres
toFixed0(mm) == (mm + 500) \div 1000

\* String.prototype.trim
RECURSIVE trim(_)
trim(caracteres) ==
  IF caracteres = <<>> THEN <<>>
  ELSE IF Head(caracteres) = " " THEN trim(Tail(caracteres))
  ELSE IF caracteres[Len(caracteres)] = " "
  THEN trim(SubSeq(caracteres, 1, Len(caracteres) - 1))
  ELSE caracteres

\* lines 175-176; conRecorte tells whether the text is trimmed
faltaJustificacionCon(pl, tipo, hora, justificacion, conRecorte) ==
  /\ pl = "PTAP" /\ tipo = "salida"
  /\ hora >= 17
  /\ \/ Falsy(justificacion)
     \/ conRecorte /\ trim(justificacion.texto) = <<>>

faltaJustificacionSinRecorte(pl, tipo, hora, justificacion) ==
  faltaJustificacionCon(pl, tipo, hora, justificacion, FALSE)

faltaJustificacion(pl, tipo, hora, justificacion) ==
  faltaJustificacionCon(pl, tipo, hora, justificacion, TRUE)

\* line 166: the request is refused outside the zone
geocercaSinRechazo(dentroZona) == FALSE

fueraDeZona(dentroZona) == ~dentroZona

\* req.body; an absent nombreOperario, planta or tipo is the empty string
CuerpoRegistro(op, pl, tipo, lugar, justificacion) ==
  [nombreOperario |-> op, planta |-> pl, tipo |-> tipo, lugar |-> lugar,
   justificacionExtra |-> justificacion]

Justificaciones ==
  {Indefinido, Texto(<<>>), Texto(<<" ">>), Texto(<<" ", "m", " ">>)}

CuerposRegistro ==
  {CuerpoRegistro("ana", "PTAP", "salida", "patio", j) :
     j \in Justificaciones}
  \cup
  {CuerpoRegistro("ana", "PTAP", "salida", "calle", Texto(<<"m">>)),
   CuerpoRegistro("ana", "PTAP", "ingreso", "cerca", Indefinido),
   CuerpoRegistro("ana", "PTAR", "salida", "tanque", Indefinido),
   CuerpoRegistro("ana", "PTAR", "ingreso", "calle", Indefinido),
   CuerpoRegistro("", "PTAP", "ingreso", "patio", Indefinido),
   CuerpoRegistro("ana", "PTAX", "ingreso", "patio", Indefinido),
   CuerpoRegistro("ana", "PTAP", "ingreso", "ninguna", Indefinido)}

\* a request: pos is "buscando" (findOne sent), "hallado" (findOne
\* answered), "guardando" (save sent) or "fin" (response sent, with estado)
Peticion(body, pos, ahora, yaExiste, doc, estado) ==
  [body |-> body, pos |-> pos, ahora |-> ahora, yaExiste |-> yaExiste,
   doc |-> doc, estado |-> estado]

\* what no step of POST /api/registro assigns
informe == <<planta, registros, pc, idx, ultimoIngreso, intervalos, nInt,
             actual, segmentos, horasNormales, horasExtra, horasDominicales,
             detalle, semanas, detalleDias, respuesta, consulta, permisos,
             previa>>

\* lines 125-153: the checks of the body, `ahora`, and findOne is sent
Recibir(body) ==
  /\ Len(peticiones) < MaxPeticiones
  /\ peticiones' = Append(peticiones,
       IF \/ body.nombreOperario = "" \/ body.planta = "" \/ body.tipo = ""
          \/ body.planta \notin {"PTAP", "PTAR"}
          \/ body.lugar = "ninguna"
       THEN Peticion(body, "fin", Nulo, FALSE, <<>>, 400)
       ELSE Peticion(body, "buscando", reloj, FALSE, <<>>, 0))
  /\ UNCHANGED <<informe, almacen, reloj>>

\* the database answers findOne({nombreOperario, planta, tipo, fechaDia})
Buscar(i) ==
  /\ i \in 1..Len(peticiones)
  /\ peticiones[i].pos = "buscando"
  /\ LET body == peticiones[i].body
         fechaDia == obtenerFechaDia(peticiones[i].ahora)
         yaExiste ==
           \E j \in 1..Len(almacen) :
             /\ almacen[j].nombreOperario = body.nombreOperario
             /\ almacen[j].planta = body.planta
             /\ almacen[j].tipo = body.tipo
             /\ almacen[j].fechaDia = fechaDia
     IN peticiones' = [peticiones EXCEPT ![i].pos = "hallado",
                                         ![i].yaExiste = yaExiste]
  /\ UNCHANGED <<informe, almacen, reloj>>

\* lines 155-200: the handler resumes, refuses the request or builds the
\* document (creadoEn is Date.now) and sends save
Decidir(i) ==
  /\ i \in 1..Len(peticiones)
  /\ peticiones[i].pos = "hallado"
  /\ LET body == peticiones[i].body
         ahora == peticiones[i].ahora
         distancia == distanciaMetros(body.lugar, body.planta)
         dentroZona == distancia <= radio(body.planta)
         turno == IF body.planta = "PTAR"
                  THEN determinarTurno(getHours(ahora)) ELSE "null"
         nuevoRegistro ==
           Documento(i, body.nombreOperario, body.planta, body.tipo, ahora,
                     reloj, dentroZona, toFixed0(distancia),
                     IF Falsy(body.justificacionExtra) THEN Indefinido
                     ELSE body.justificacionExtra,
                     turno)
     IN peticiones' =
          IF peticiones[i].yaExiste
          THEN [peticiones EXCEPT ![i].pos = "fin", ![i].estado = 400]
          ELSE IF fueraDeZona(dentroZona)
          THEN [peticiones EXCEPT ![i].pos = "fin", ![i].estado = 403]
          ELSE IF faltaJustificacion(body.planta, body.tipo,
                                     horaLocalColombia(ahora),
                                     body.justificacionExtra)
          THEN [peticiones EXCEPT ![i].pos = "fin", ![i].estado = 400]
          ELSE [peticiones EXCEPT ![i].pos = "guardando",
                                  ![i].doc = <<nuevoRegistro>>]
  /\ UNCHANGED <<informe, almacen, reloj>>

\* the database inserts the document and the handler answers (lines 200-208)
Guardar(i) ==
  /\ i \in 1..Len(peticiones)
  /\ peticiones[i].pos = "guardando"
  /\ almacen' = almacen \o peticiones[i].doc
  /\ peticiones' = [peticiones EXCEPT ![i].pos = "fin", ![i].estado = 200]
  /\ UNCHANGED <<informe, reloj>>

\* time passes
Tic ==
  /\ \E t \in InstantesReloj : t > reloj
  /\ reloj' = CHOOSE t \in InstantesReloj :
                t > reloj /\ \A u \in InstantesReloj : u > reloj => t <= u
  /\ UNCHANGED <<informe, almacen, peticiones>>

InitRegistro ==
  /\ planta = "PTAP"
  /\ consulta = ConsultaCompleta
  /\ permisos = {}
  /\ almacen = <<>>
  /\ registros = <<>>
  /\ previa = <<>>
  /\ peticiones = <<>>
  /\ reloj = FechaHora(2, 21, 59, 59)
  /\ pc = "espera"
  /\ idx = 1
  /\ ultimoIngreso = Nulo
  /\ intervalos = <<>>
  /\ nInt = 1
  /\ actual = Nulo
  /\ segmentos = <<>>
  /\ horasNormales = 0 /\ horasExtra = 0 /\ horasDominicales = 0
  /\ detalle = <<>>
  /\ semanas = <<>> /\ detalleDias = <<>>
  /\ respuesta = SinRespuesta

NextRegistro ==
  \/ \E body \in CuerposRegistro : Recibir(body)
  \/ \E i \in 1..MaxPeticiones : Buscar(i)
  \/ \E i \in 1..MaxPeticiones : Decidir(i)
  \/ \E i \in 1..MaxPeticiones : Guardar(i)
  \/ Tic

SpecRegistro == InitRegistro /\ [][NextRegistro]_vars

\* ------------------------------------------------- vocabulary of the claims
\* length of the overlap of [s, f) with [a, b)
Solape(s, f, a, b) ==
  LET lo == IF s >= a THEN s ELSE a
      hi == IF f <= b THEN f ELSE b
  IN IF hi > lo THEN hi - lo ELSE 0

\* midnight that opens the calendar day of a segment
Medianoche(seg) == (seg.inicioSegmento \div MsPorDia) * MsPorDia

\* day 0 is a Monday, so the Sundays are the days 6, 13, ...
EnDomingo(seg) == (seg.inicioSegmento \div MsPorDia) % 7 = 6

EnManiana(seg) ==
  Solape(seg.inicioSegmento, seg.finSegmento,
         Medianoche(seg) + 7 * MsPorHora, Medianoche(seg) + 12 * MsPorHora)

EnTarde(seg) ==
  Solape(seg.inicioSegmento, seg.finSegmento,
         Medianoche(seg) + 14 * MsPorHora, Medianoche(seg) + 17 * MsPorHora)

EnNoche(seg) ==
  Solape(seg.inicioSegmento, seg.finSegmento,
         Medianoche(seg) + 17 * MsPorHora, Medianoche(seg) + 24 * MsPorHora)

Duracion(seg) == seg.finSegmento - seg.inicioSegmento

\* what the first n segments should add to a bucket
RECURSIVE SumaEsperada(_, _)
SumaEsperada(n, cubo) ==
  IF n = 0 THEN 0
  ELSE LET seg == segmentos[n]
           aporte ==
             CASE cubo = "normales" ->
                    IF EnDomingo(seg) THEN 0 ELSE EnManiana(seg) + EnTarde(seg)
               [] cubo = "extra" ->
                    IF EnDomingo(seg) THEN 0 ELSE EnNoche(seg)
               [] cubo = "duracionDomingo" ->
                    IF EnDomingo(seg) THEN Solape(seg.inicioSegmento,
                         seg.finSegmento, seg.inicioSegmento, seg.finSegmento)
                    ELSE 0
       IN SumaEsperada(n - 1, cubo) + aporte

UnTurno(d, r1, r2) ==
  <<Evento("ingreso", d * MsPorDia + r1), Evento("salida", d * MsPorDia + r2)>>

\* --------------------------------------------------------------------- C1
\* C1: the day segments of an interval are contiguous: the first starts at
\* the interval start, each next one starts exactly where the previous one
\* ended, none is reversed, and the last ends at the interval end.
SegmentosContiguos ==
  \A j \in 1..Len(segmentos) :
    LET seg == segmentos[j]
        int == intervalos[seg.intervalo]
        primero == j = 1 \/ segmentos[j - 1].intervalo # seg.intervalo
        ultimo ==
          /\ seg.intervalo < nInt
          /\ j = Len(segmentos) \/ segmentos[j + 1].intervalo # seg.intervalo
    IN /\ seg.inicioSegmento <= seg.finSegmento
       /\ primero => seg.inicioSegmento = int.inicio
       /\ ~primero => seg.inicioSegmento = segmentos[j - 1].finSegmento
       /\ ultimo => seg.finSegmento = int.fin

\* --------------------------------------------------------------------- C2
\* the intervals of the adjacent (check-in, check-out) pairs of regs[1..n]
RECURSIVE ParesAdyacentes(_, _)
ParesAdyacentes(regs, n) ==
  IF n < 2 THEN <<>>
  ELSE ParesAdyacentes(regs, n - 1) \o
       (IF regs[n - 1].tipo = "ingreso" /\ regs[n].tipo = "salida"
        THEN <<[inicio |-> regs[n - 1].creadoEn, fin |-> regs[n].creadoEn]>>
        ELSE <<>>)

\* C2: after any prefix of the events the builder has emitted exactly one
\* interval per check-out that directly follows a check-in (the most recent
\* check-in, which replaced any earlier pending one), nothing for any other
\* event, and a check-in is pending exactly when the last event was one.
UnIntervaloPorSalidaConIngreso ==
  LET n == idx - 1
  IN /\ intervalos = ParesAdyacentes(registros, n)
     /\ ultimoIngreso =
          (IF n >= 1 /\ registros[n].tipo = "ingreso"
           THEN registros[n].creadoEn ELSE Nulo)
     /\ pc \in {"calculo", "limite", "fin"}

\* an older check-in was replaced, and a later check-out found none pending
TestigoIngresoReemplazado ==
  /\ Len(registros) = 3 /\ idx = 4
  /\ registros[1].tipo = "ingreso" /\ registros[2].tipo = "ingreso"
  /\ registros[3].tipo = "salida"
  /\ registros[1].creadoEn < registros[2].creadoEn
  /\ intervalos = <<[inicio |-> registros[2].creadoEn,
                     fin |-> registros[3].creadoEn]>>

\* --------------------------------------------------------------------- C3
\* C3: under PTAP every segment of a day that is not a Sunday adds its
\* overlap with [07:00,12:00) plus [14:00,17:00) to the regular hours and
\* its overlap with [17:00,24:00) to the overtime hours, and nothing else is
\* added; 06:55-18:30 on Wednesday 2025-11-26 reports 8.00 / 1.50 / 0.
BloquesDiaHabil ==
  planta = "PTAP" =>
    /\ Len(detalle) = Len(segmentos)
    /\ \A j \in 1..Len(segmentos) :
         ~EnDomingo(segmentos[j]) =>
           /\ detalle[j].horasNormalesDia =
                EnManiana(segmentos[j]) + EnTarde(segmentos[j])
           /\ detalle[j].horasExtraDia = EnNoche(segmentos[j])
    /\ horasNormales = SumaEsperada(Len(segmentos), "normales")
    /\ horasExtra = SumaEsperada(Len(segmentos), "extra")
    /\ (pc = "fin" /\ registros = UnTurno(2, Reloj(6, 55, 0, 0),
                                          Reloj(18, 30, 0, 0))) =>
         /\ respuesta.horasNormales = 800
         /\ respuesta.horasExtra = 150
         /\ respuesta.horasDominicales = 0

TestigoMiercoles ==
  /\ planta = "PTAP" /\ pc = "fin"
  /\ registros = UnTurno(2, Reloj(6, 55, 0, 0), Reloj(18, 30, 0, 0))
  /\ Len(segmentos) = 1 /\ ~EnDomingo(segmentos[1])
  /\ respuesta.horasNormales = 800 /\ respuesta.horasExtra = 150

\* --------------------------------------------------------------------- C4
\* C4 as stated: the Sunday premium hours are the full worked duration of
\* the Sunday segments, whatever the time of day.
DominicalesDuracionCompleta ==
  planta = "PTAP" =>
    horasDominicales = SumaEsperada(Len(segmentos), "duracionDomingo")

\* C4 amended: a PTAP iteration on a Sunday segment adds to horasDominicales
\* the segment's overlap with the three blocks 07-12, 14-17 and 17-24 (the
\* time outside the blocks adds nothing) and leaves horasNormales and
\* horasExtra unchanged.
DominicalesSumaBloques ==
  [][(planta = "PTAP" /\ Len(segmentos') = Len(segmentos) + 1
        /\ EnDomingo(segmentos'[Len(segmentos')]))
     => LET seg == segmentos'[Len(segmentos')]
        IN /\ horasDominicales' = horasDominicales
                + EnManiana(seg) + EnTarde(seg) + EnNoche(seg)
           /\ horasNormales' = horasNormales
           /\ horasExtra' = horasExtra]_vars

\* Sunday 2025-11-30, 06:55-18:30: 11 h 35 min worked, 9.50 reported
TestigoDomingo ==
  /\ planta = "PTAP" /\ pc = "fin"
  /\ registros = UnTurno(6, Reloj(6, 55, 0, 0), Reloj(18, 30, 0, 0))
  /\ Len(segmentos) = 1 /\ EnDomingo(segmentos[1])
  /\ respuesta.horasDominicales = 950
  /\ respuesta.horasNormales = 0 /\ respuesta.horasExtra = 0

\* --------------------------------------------------------------------- C5
\* C5: a detail record flagged Sunday carries the three block overlaps as
\* Sunday-premium hours and 0 in its regular and overtime fields; a record
\* not flagged Sunday carries 0 Sunday-premium hours.
DetalleDomingoEnCero ==
  planta = "PTAP" =>
    \A j \in 1..Len(detalle) :
      IF detalle[j].domingo
      THEN /\ detalle[j].horasDominicalesDia =
                EnManiana(segmentos[j]) + EnTarde(segmentos[j])
                  + EnNoche(segmentos[j])
           /\ detalle[j].horasNormalesDia = 0
           /\ detalle[j].horasExtraDia = 0
      ELSE detalle[j].horasDominicalesDia = 0

\* --------------------------------------------------------------------- C6
\* C6: in the PTAR report every week has regular = min(total, 45 h) and
\* overtime = max(0, total - 45 h), so regular + overtime = total and
\* overtime > 0 only if total > 45 h.
TopeSemanal ==
  (planta = "PTAR" /\ pc \in {"limite", "fin"}) =>
    \A j \in 1..Len(semanas) :
      LET total == semanas[j].horasTotales
          tope == 45 * 3600000
      IN /\ semanas[j].horasNormales = (IF total < tope THEN total ELSE tope)
         /\ semanas[j].horasExtra = (IF total - tope > 0 THEN total - tope
                                     ELSE 0)
         /\ semanas[j].horasNormales + semanas[j].horasExtra = total
         /\ semanas[j].horasExtra > 0 => total > tope

\* a reported week of 49 h: 45 regular, 4 overtime
TestigoSemanaConExtra ==
  /\ planta = "PTAR" /\ pc = "fin"
  /\ \E j \in 1..Len(semanas) :
       /\ semanas[j].horasTotales = 49 * 3600000
       /\ semanas[j].horasNormales = 45 * 3600000
       /\ semanas[j].horasExtra = 4 * 3600000

\* --------------------------------------------------------------------- C7
\* the week (0 = the week of Monday 2025-11-24) of a segment's calendar day
SemanaDe(seg) == (seg.inicioSegmento \div MsPorDia) \div 7

UltimaSemana ==
  (IF MaxDia > MaxDiaPlan THEN MaxDia ELSE MaxDiaPlan) \div 7 + 1

SemanasPosibles == 0..UltimaSemana

\* sum over the first n segments of week w of the duration / the night hours
RECURSIVE HorasSemana(_, _, _)
HorasSemana(n, w, nocturnas) ==
  IF n = 0 THEN 0
  ELSE HorasSemana(n - 1, w, nocturnas)
       + (IF SemanaDe(segmentos[n]) # w THEN 0
          ELSE IF nocturnas THEN detalleDias[n].horasNocturnas
          ELSE Duracion(segmentos[n]))

\* sum over the weeks 0..w of the total / regular / overtime / night hours
RECURSIVE SumaSemanas(_, _)
SumaSemanas(w, cubo) ==
  IF w < 0 THEN 0
  ELSE LET total == HorasSemana(Len(segmentos), w, FALSE)
           tope == 45 * 3600000
       IN SumaSemanas(w - 1, cubo)
          + (CASE cubo = "total" -> total
               [] cubo = "normales" -> IF total < tope THEN total ELSE tope
               [] cubo = "extra" -> IF total > tope THEN total - tope ELSE 0
               [] cubo = "nocturnas" -> HorasSemana(Len(segmentos), w, TRUE))

\* Monday to Friday 9 h each; with sexto, 4 h more on Saturday
PlanSemana(sexto) ==
  RegistrosPlan([d \in 0..MaxDiaPlan |->
                   IF d < 5 THEN "nueve"
                   ELSE IF d = 5 /\ sexto THEN "cuatro" ELSE "libre"],
                MaxDiaPlan)

\* C7: under PTAR every week bucket holds the sum of the durations (and of
\* the night hours) of all day segments of that calendar week, whatever
\* their interval, every week with a segment has one bucket, and the limit
\* is applied to these week totals: the report's totals are the sums over
\* the weeks (to 2 decimals); five 9 h days give 45/45/0 and a sixth day of
\* 4 h in the same week 49/45/4.
TotalPorSemana ==
  planta = "PTAR" =>
    /\ Len(detalleDias) = Len(segmentos)
    /\ \A j \in 1..Len(semanas) :
         \E w \in SemanasPosibles :
           /\ semanas[j].inicio = Calendario(7 * w)
           /\ semanas[j].fin = Calendario(7 * w + 6)
           /\ semanas[j].horasTotales = HorasSemana(Len(segmentos), w, FALSE)
           /\ semanas[j].horasNocturnas = HorasSemana(Len(segmentos), w, TRUE)
    /\ \A i \in 1..Len(segmentos) :
         Cardinality({j \in 1..Len(semanas) :
            semanas[j].inicio = Calendario(7 * SemanaDe(segmentos[i]))}) = 1
    /\ pc = "fin" =>
         LET ultima == UltimaSemana
         IN /\ respuesta.totalHoras = toFixed2(SumaSemanas(ultima, "total"))
            /\ respuesta.horasNormales =
                 toFixed2(SumaSemanas(ultima, "normales"))
            /\ respuesta.horasExtra = toFixed2(SumaSemanas(ultima, "extra"))
            /\ respuesta.horasNocturnas =
                 toFixed2(SumaSemanas(ultima, "nocturnas"))
    /\ (pc = "fin" /\ registros = PlanSemana(FALSE)) =>
         /\ respuesta.totalHoras = 4500
         /\ respuesta.horasNormales = 4500
         /\ respuesta.horasExtra = 0
    /\ (pc = "fin" /\ registros = PlanSemana(TRUE)) =>
         /\ respuesta.totalHoras = 4900
         /\ respuesta.horasNormales = 4500
         /\ respuesta.horasExtra = 400

TestigoSextoDia ==
  /\ planta = "PTAR" /\ pc = "fin"
  /\ registros = PlanSemana(TRUE)
  /\ Len(segmentos) = 6 /\ Len(semanas) = 1
  /\ respuesta.totalHoras = 4900 /\ respuesta.horasExtra = 400

\* --------------------------------------------------------------------- C8
\* C8: the week key of every PTAR day segment is (Monday, Sunday) with
\* Monday = the segment's day minus (weekday - 1) days, Sunday counted as
\* weekday 7, and Sunday = Monday + 6 days; the week contains the day, and
\* two segments have the same key exactly when their days lie in the same
\* Monday-Sunday week.
SemanaLunesADomingo ==
  planta = "PTAR" =>
    /\ \A i \in 1..Len(detalleDias) :
         LET d == segmentos[i].inicioSegmento \div MsPorDia
             diaSemana == (d % 7) + 1
             lunes == d - (diaSemana - 1)
         IN /\ detalleDias[i].semana =
                 <<Calendario(lunes), Calendario(lunes + 6)>>
            /\ lunes % 7 = 0
            /\ lunes <= d /\ d <= lunes + 6
    /\ \A i, k \in 1..Len(detalleDias) :
         (detalleDias[i].semana = detalleDias[k].semana)
           <=> (SemanaDe(segmentos[i]) = SemanaDe(segmentos[k]))

\* a Sunday segment and the segment of the Monday after it, in two weeks
TestigoDomingoYLunes ==
  /\ planta = "PTAR"
  /\ \E i, k \in 1..Len(detalleDias) :
       /\ (segmentos[i].inicioSegmento \div MsPorDia) % 7 = 6
       /\ segmentos[k].inicioSegmento \div MsPorDia
            = segmentos[i].inicioSegmento \div MsPorDia + 1
       /\ detalleDias[i].semana # detalleDias[k].semana
       /\ detalleDias[i].semana[2] = detalleDias[i].fecha

\* --------------------------------------------------------------------- C9
\* overlap of the segment shifted by 5 hours with the night spans 19:00-06:00
\* that can meet it: the one begun the evening before and the one of the day
SolapeNocturno(seg) ==
  LET s == seg.inicioSegmento - 5 * 3600000
      f == seg.finSegmento - 5 * 3600000
      m == (s \div MsPorDia) * MsPorDia
  IN Solape(s, f, m - 5 * 3600000, m + 6 * 3600000)
     + Solape(s, f, m + 19 * 3600000, m + 30 * 3600000)

\* C9: the night hours of every PTAR day segment are the length of the
\* overlap of the shifted segment with the local night span 19:00-06:00:
\* its full duration when inside (00:00-06:00 included), 0 when outside.
NocturnasIgualSolape ==
  planta = "PTAR" =>
    \A i \in 1..Len(detalleDias) :
      detalleDias[i].horasNocturnas = SolapeNocturno(segmentos[i])

\* -------------------------------------------------------------------- C10
\* C10 as stated: a PTAR shift from 18:00 to 23:00 server time is reported
\* with 4.00 night hours and 1.00 non-night hour.
TurnoTardeCuatroNocturnas ==
  (planta = "PTAR" /\ pc = "fin"
     /\ \E d \in 0..MaxDia :
          registros = UnTurno(d, Reloj(18, 0, 0, 0), Reloj(23, 0, 0, 0)))
  => /\ respuesta.horasNocturnas = 400
     /\ respuesta.totalHoras - respuesta.horasNocturnas = 100

\* C10 amended: the shift applied is the fixed 5 hours of aFechaColombia, so
\* a PTAR shift from 18:00 to 23:00 server time counts as 13:00-18:00 and is
\* reported with 0 night hours and 5.00 non-night hours.
TurnoTardeSinNocturnas ==
  (planta = "PTAR" /\ pc = "fin"
     /\ \E d \in 0..MaxDia :
          registros = UnTurno(d, Reloj(18, 0, 0, 0), Reloj(23, 0, 0, 0)))
  => /\ respuesta.horasNocturnas = 0
     /\ respuesta.totalHoras = 500
     /\ Len(detalleDias) = 1
     /\ detalleDias[1].horasNocturnas = 0
     /\ detalleDias[1].horas = 5 * 3600000

TestigoTurnoTarde ==
  /\ planta = "PTAR" /\ pc = "fin"
  /\ registros = UnTurno(2, Reloj(18, 0, 0, 0), Reloj(23, 0, 0, 0))
  /\ respuesta.totalHoras = 500
  /\ respuesta.horasNocturnas = 0

\* ---------------------------------------------------------------- C11
\* the hours of the absence records with identifiers 1..n of the worker and
\* site of the query whose day lies between the first and the last day of
\* the query, both included
RECURSIVE PermisoEnRango(_)
PermisoEnRango(n) ==
  IF n = 0 THEN 0
  ELSE LET p == CHOOSE x \in permisos : x.id = n
           dia == DiaDeTexto(p.fechaPermiso)
       IN PermisoEnRango(n - 1)
            + (IF /\ p.nombreOperario = consulta.operario
                  /\ p.planta = planta
                  /\ DiaDeTexto(consulta.desde) <= dia
                  /\ dia <= DiaDeTexto(consulta.hasta)
               THEN p.horasPermiso ELSE 0)

\* a report body without its horasPermiso
SinHorasPermiso(cuerpo) ==
  [cuerpo EXCEPT !.respuesta = [@ EXCEPT !.horasPermiso = 0]]

\* C11: the horasPermiso of a report is the sum of the hours of the absence
\* records of the worker and site dated within [desde, hasta], and the rest
\* of the report (totals and detail) is the one the same query had when the
\* first report was computed, whatever absence records have been added
\* since (none were stored at the first report, when it is the empty set)
PermisosSoloInformativos ==
  [][(pc # "fin" /\ pc' = "fin") =>
       /\ respuesta'.horasPermiso =
            toFixed2(PermisoEnRango(Cardinality(permisos)))
       /\ (/\ previa # <<>>
           /\ previa[1].consulta = consulta
           /\ previa[1].planta = planta)
            => SinHorasPermiso(Cuerpo') = SinHorasPermiso(previa[1].cuerpo)]_vars

\* a report with worked hours and hours of absence, after a report of the
\* same query computed over the empty absence set, while a record dated
\* outside the query is in store
TestigoPermisoEntreInformes ==
  /\ pc = "fin"
  /\ previa # <<>>
  /\ previa[1].consulta = consulta /\ previa[1].planta = planta
  /\ previa[1].permisos = {}
  /\ previa[1].cuerpo.respuesta.totalHoras > 0
  /\ respuesta.horasPermiso = toFixed2(PermisoEnRango(Cardinality(permisos)))
  /\ respuesta.horasPermiso > 0
  /\ \E p \in permisos : /\ p.nombreOperario = consulta.operario
                         /\ p.planta = planta
                         /\ ~TextoMenorIgual(p.fechaPermiso, consulta.hasta)

\* ---------------------------------------------------------------- C12
\* no check-out of regs directly follows a check-in: every event is unpaired
SoloHuerfanos(regs) ==
  \A j \in 1..(Len(regs) - 1) :
    ~(regs[j].tipo = "ingreso" /\ regs[j + 1].tipo = "salida")

\* C12: when the worker has no events in the range, or only unpaired ones,
\* the computation ends with a normal response in which every hour total is
\* 0 and the detail (per day, and per week under PTAR) is empty
SinIntervalosTodoEnCero ==
  (pc = "fin" /\ SoloHuerfanos(registros)) =>
    /\ respuesta = SinRespuesta
    /\ intervalos = <<>>
    /\ detalle = <<>> /\ detalleDias = <<>> /\ semanas = <<>>

\* the response for two check-ins at different instants and no check-out
TestigoSoloHuerfanos ==
  /\ pc = "fin"
  /\ Len(registros) >= 2
  /\ \A j \in 1..Len(registros) : registros[j].tipo = "ingreso"
  /\ registros[1].creadoEn < registros[Len(registros)].creadoEn

\* ---------------------------------------------------------------- C13
\* C13: a report computed on the query, the events and the absence records
\* of the first report is identical to the first report, whatever reports
\* (of this or of other workers) were computed in between, and no step of a
\* report computation changes the stored events or absence records
InformeDeterministaSinEfectos ==
  [][/\ (/\ pc # "fin" /\ pc' = "fin"
         /\ previa # <<>>
         /\ previa[1].consulta = consulta
         /\ previa[1].planta = planta
         /\ previa[1].permisos = permisos)
          => Cuerpo' = previa[1].cuerpo
     /\ pc \in {"calculo", "limite"}
          => (almacen' = almacen /\ permisos' = permisos)]_vars

\* the report of the first query computed again, with worked hours, after a
\* report of another worker
TestigoInformeRepetido ==
  /\ pc = "fin"
  /\ previa # <<>>
  /\ previa[1].otros
  /\ previa[1].consulta = consulta
  /\ previa[1].planta = planta
  /\ previa[1].permisos = permisos
  /\ Cuerpo = previa[1].cuerpo
  /\ respuesta.totalHoras > 0
  /\ Len(semanas) > 0

\* ---------------------------------------------------------------- C14
\* C14: the Registro collection never holds two events of the same kind of
\* one worker at one site with the same calendar day (fechaDia)
UnEventoPorTipoYDia ==
  \A j \in 1..Len(almacen), k \in 1..Len(almacen) :
    (/\ j < k
     /\ almacen[j].nombreOperario = almacen[k].nombreOperario
     /\ almacen[j].planta = almacen[k].planta
     /\ almacen[j].tipo = almacen[k].tipo)
      => almacen[j].fechaDia # almacen[k].fechaDia

\* ---------------------------------------------------------------- C15
\* the hour of the day of an instant on a clock five hours behind UTC
HoraUTCMenos5(t) == ((t - 5 * MsPorHora) % MsPorDia) \div MsPorHora

\* absent, empty or made of blanks only
EnBlanco(justificacion) ==
  \/ ~justificacion.definido
  \/ \A k \in 1..Len(justificacion.texto) : justificacion.texto[k] = " "

\* the documents in store that request i built
GuardadosDe(i) == {j \in 1..Len(almacen) : almacen[j].peticion = i}

\* C15: every stored PTAP check-out whose request was read at 17:00 or later
\* on the UTC-5 clock carries a justification that is not blank, and a PTAP
\* check-out request read at 17:00 or later with an absent, empty or blank
\* justification is refused and stores nothing
SalidaTardeJustificada ==
  /\ \A j \in 1..Len(almacen) :
       (/\ almacen[j].planta = "PTAP" /\ almacen[j].tipo = "salida"
        /\ HoraUTCMenos5(almacen[j].ahora) >= 17)
         => ~EnBlanco(almacen[j].justificacionExtra)
  /\ \A i \in 1..Len(peticiones) :
       (/\ peticiones[i].ahora # Nulo
        /\ peticiones[i].body.planta = "PTAP"
        /\ peticiones[i].body.tipo = "salida"
        /\ HoraUTCMenos5(peticiones[i].ahora) >= 17
        /\ EnBlanco(peticiones[i].body.justificacionExtra))
         => /\ peticiones[i].doc = <<>>
            /\ GuardadosDe(i) = {}
            /\ peticiones[i].pos = "fin" => peticiones[i].estado \in {400, 403}

\* a check-out of 17:00 with a blank text was refused for its justification
\* alone, and one with a text is in store
TestigoSalidaTarde ==
  /\ \E i \in 1..Len(peticiones) :
       /\ peticiones[i].pos = "fin" /\ peticiones[i].estado = 400
       /\ ~peticiones[i].yaExiste
       /\ peticiones[i].ahora # Nulo
       /\ HoraUTCMenos5(peticiones[i].ahora) >= 17
       /\ peticiones[i].body.justificacionExtra = Texto(<<" ">>)
  /\ \E j \in 1..Len(almacen) :
       /\ almacen[j].planta = "PTAP" /\ almacen[j].tipo = "salida"
       /\ HoraUTCMenos5(almacen[j].ahora) >= 17
       /\ almacen[j].justificacionExtra = Texto(<<" ", "m", " ">>)

\* ---------------------------------------------------------------- C20
\* the radius of the zone of a site, in metres
RadioEnMetros(pl) == IF pl = "PTAP" THEN 35 ELSE 50

\* every stored event was built inside the zone of its site
GuardadosEnZona ==
  \A j \in 1..Len(almacen) :
    /\ almacen[j].dentroZona
    /\ almacen[j].distancia <= RadioEnMetros(almacen[j].planta)
    /\ almacen[j].peticion \in 1..Len(peticiones)
    /\ distanciaMetros(peticiones[almacen[j].peticion].body.lugar,
                       almacen[j].planta)
         <= 1000 * RadioEnMetros(almacen[j].planta)

\* a refused request has stored nothing
RechazadasSinGuardar ==
  \A i \in 1..Len(peticiones) :
    peticiones[i].estado \in {400, 403} =>
      peticiones[i].doc = <<>> /\ GuardadosDe(i) = {}

\* C20: every stored event was registered inside the zone of its site
\* (dentroZona true, distance at most the radius), and the step that refuses
\* a request (fields missing, site invalid, no GPS, duplicate of the day,
\* outside the zone, justification missing) leaves the collection unchanged
SoloEnZonaYRechazoSinCambio ==
  /\ [](GuardadosEnZona /\ RechazadasSinGuardar)
  /\ [][(\E i \in 1..Len(peticiones') :
           /\ peticiones'[i].estado \in {400, 403}
           /\ (i > Len(peticiones) \/ peticiones[i].estado = 0))
          => almacen' = almacen]_vars

\* an event sent from the very edge of the zone is in store, and a request
\* sent from 35.4 m (35 m after toFixed(0)) was refused
TestigoBordeDeZona ==
  /\ \E j \in 1..Len(almacen) :
       distanciaMetros(peticiones[almacen[j].peticion].body.lugar,
                       almacen[j].planta)
         = 1000 * RadioEnMetros(almacen[j].planta)
  /\ \E i \in 1..Len(peticiones) :
       /\ peticiones[i].estado = 403
       /\ peticiones[i].body.lugar = "calle"
       /\ peticiones[i].body.planta = "PTAP"

\* ---------------------------------------------------------------- C16
\* an amount of hours that has at most two decimals
DosDecimales(ms) == ms % (MsPorHora \div 100) = 0

\* C16: every hour field of the per-day and per-week detail records is
\* rounded to 2 decimal places (the grand totals always are: respuesta
\* holds hundredths of an hour)
DetalleConDosDecimales ==
  pc = "fin" =>
    /\ \A k \in 1..Len(detalle) :
         /\ DosDecimales(detalle[k].horasNormalesDia)
         /\ DosDecimales(detalle[k].horasExtraDia)
         /\ DosDecimales(detalle[k].horasDominicalesDia)
    /\ \A k \in 1..Len(detalleDias) :
         /\ DosDecimales(detalleDias[k].horas)
         /\ DosDecimales(detalleDias[k].horasNocturnas)
    /\ \A k \in 1..Len(semanas) :
         /\ DosDecimales(semanas[k].horasTotales)
         /\ DosDecimales(semanas[k].horasNormales)
         /\ DosDecimales(semanas[k].horasExtra)
         /\ DosDecimales(semanas[k].horasNocturnas)

\* ---------------------------------------------------------------- C17
\* the claim as stated: every interval starts strictly before it ends
IntervaloInicioAntesDeFin ==
  \A k \in 1..Len(intervalos) : intervalos[k].inicio < intervalos[k].fin

\* C17: every interval emitted from a timestamp-ascending sequence starts
\* at or before its end; it starts at its end exactly when the check-in and
\* the check-out carry the same timestamp, and then no day segment is cut
\* from it
IntervaloInicioHastaFin ==
  /\ intervalos = ParesAdyacentes(registros, idx - 1)
  /\ \A k \in 1..Len(intervalos) :
       /\ intervalos[k].inicio <= intervalos[k].fin
       /\ intervalos[k].inicio = intervalos[k].fin =>
            \A n \in 1..Len(segmentos) : segmentos[n].intervalo # k

\* a finished report whose events gave an interval of length zero
TestigoIntervaloVacio ==
  /\ pc = "fin"
  /\ \E k \in 1..Len(intervalos) : intervalos[k].inicio = intervalos[k].fin

\* ---------------------------------------------------------------- C18
\* the day segments cut from interval k
SegmentosDe(k) == {n \in 1..Len(segmentos) : segmentos[n].intervalo = k}

\* C18: the day-splitting loop terminates.  An iteration runs only while
\* the cursor is before the end of the interval and moves the cursor
\* forward, to 00:00:00 of the next calendar day; once the cursor is at or
\* past the end the loop is left without another iteration; an interval
\* gives at most one segment per calendar day it touches, none at all when
\* its start is not before its end, and every detail record comes from a
\* segment; and the computation reaches its response
BucleDeDiasTermina ==
  /\ [][/\ segmentos' # segmentos =>
             /\ actual # Nulo /\ actual < intervalos[nInt].fin
             /\ actual' > actual
             /\ actual' = ((actual \div MsPorDia) + 1) * MsPorDia
        /\ (actual # Nulo /\ actual >= intervalos[nInt].fin) =>
             (segmentos' = segmentos /\ actual' = Nulo /\ nInt' = nInt + 1)
       ]_vars
  /\ [](/\ \A k \in 1..Len(intervalos) :
             /\ intervalos[k].inicio >= intervalos[k].fin
                  => SegmentosDe(k) = {}
             /\ intervalos[k].inicio < intervalos[k].fin
                  => Cardinality(SegmentosDe(k))
                       <= (intervalos[k].fin \div MsPorDia)
                            - (intervalos[k].inicio \div MsPorDia) + 1
         /\ Len(detalle) + Len(detalleDias) = Len(segmentos))
  /\ <>(pc = "fin")

\* a finished report with an interval that was split over three calendar
\* days or more
TestigoTresDias ==
  /\ pc = "fin"
  /\ \E k \in 1..Len(intervalos) : Cardinality(SegmentosDe(k)) >= 3

\* ---------------------------------------------------------------- C19
\* C19: under PTAR the night hours never exceed the hours they are part of:
\* 0 <= horasNocturnas <= horas in every day-detail record, horasNocturnas
\* <= horasTotales in every week, and in the totals of the report
NocturnasDentroDeHoras ==
  planta = "PTAR" =>
    /\ \A k \in 1..Len(detalleDias) :
         /\ 0 <= detalleDias[k].horasNocturnas
         /\ detalleDias[k].horasNocturnas <= detalleDias[k].horas
    /\ \A k \in 1..Len(semanas) :
         semanas[k].horasNocturnas <= semanas[k].horasTotales
    /\ pc = "fin" => respuesta.horasNocturnas <= respuesta.totalHoras

\* the same, for the reports none of whose segments starts after 23:59:59
NocturnasDentroDeHorasSinUltimoSegundo ==
  (\A n \in 1..Len(segmentos) :
     segmentos[n].inicioSegmento <= segmentos[n].finSegmento)
    => NocturnasDentroDeHoras

====
